---- MODULE Spec2Model ----
(***************************************************************************)
(* Turn simulation and incident mitigation of the investordefend server:   *)
(* GamesService.simulateTurn, SimulationsService and the organisation      *)
(* operations they call, over a document store.                            *)
(*                                                                         *)
(* Numbers.  Math.random() is a draw k \in Rand standing for k / RandDen.  *)
(* Probabilities and includeFrom are exact rationals.  Money is an integer *)
(* count of millionths of a currency unit, so that rounding to two         *)
(* decimals (hundredths), a cost modifier in hundredths and an             *)
(* effectiveness in hundredths are all exact.                              *)
(***************************************************************************)
EXTENDS Integers, Sequences, FiniteSets, TLC

(* ------------------------------ bounds --------------------------------- *)
RandDen == 2
MaxOrgs == 2
MaxTurnsBound == 2
MaxRequests == 3
MaxControls == 2
MaxTokens == 5

Rand == 0 .. (RandDen - 1)

(* ------------------------------ enums ---------------------------------- *)
Purchasing == "Purchasing"
Simulating == "Simulating"
Ended == "Ended"
GameState == {Purchasing, Simulating, "Results", Ended}

SinglePlayer == "SinglePlayer"
Cooperative == "Cooperative"
Competitive == "Competitive"
GameType == {SinglePlayer, Cooperative, Competitive}

NoOrg == 0

(* --------------------------- number values ----------------------------- *)
RECURSIVE GCD(_, _)
GCD(a, b) == IF b = 0 THEN a ELSE GCD(b, a % b)

Num(n, d) == LET g == GCD(n, d) IN
             IF g = 0 THEN [k |-> "num", n |-> 0, d |-> 1]
                      ELSE [k |-> "num", n |-> n \div g, d |-> d \div g]
Undefined == [k |-> "undefined", n |-> 0, d |-> 1]
NaN == [k |-> "NaN", n |-> 0, d |-> 1]
One == Num(1, 1)

\* JavaScript truthiness of a number-or-undefined value.
Truthy(p) == p.k = "num" /\ p.n # 0
\* a || b
OrElse(p, q) == IF Truthy(p) THEN p ELSE q

RAdd(a, b) == IF a.k = "num" /\ b.k = "num"
              THEN Num(a.n * b.d + b.n * a.d, a.d * b.d) ELSE NaN
\* a / s : undefined / s and NaN / s are NaN.
RDiv(a, s) == IF a.k = "num" /\ s.k = "num" /\ s.n # 0
              THEN Num(a.n * s.d, a.d * s.n) ELSE NaN
\* a <= b : any comparison with NaN is false.
RLeq(a, b) == a.k = "num" /\ b.k = "num" /\ a.n * b.d <= b.n * a.d

Range(s) == {s[i] : i \in DOMAIN s}

(* Money: millionths of a currency unit. *)
Money(units) == units * 1000000

(* ---------------------- weighted random selection ---------------------- *)
\* SimulationsService._generateThreatActor / _generateAsset work on a list
\* of items with a `probability`; `idx` are the positions (in catalog order)
\* of the candidate items inside the stored catalog `items`.

RECURSIVE SumFrom(_, _, _, _)
\* sum of  (probability || fallback)  over idx[1..j]
SumFrom(items, idx, j, fallback) ==
  IF j = 0 THEN Num(0, 1)
  ELSE RAdd(SumFrom(items, idx, j - 1, fallback),
            OrElse(items[idx[j]].probability, fallback))

SumProbabilities(items, idx) ==
  SumFrom(items, idx, Len(idx), Num(1, IF Len(idx) = 0 THEN 1 ELSE Len(idx)))

\* The catalog after the call: when the sum is not 1 every candidate's stored
\* probability is overwritten in place by probability / sum.
NormaliseMut(items, idx) ==
  LET s == SumProbabilities(items, idx) IN
  [i \in DOMAIN items |->
     IF i \in Range(idx) THEN [items[i] EXCEPT !.probability = RDiv(@, s)]
                         ELSE items[i]]

Normalise(items, idx) ==
  IF Len(idx) = 0 THEN items
  ELSE IF SumProbabilities(items, idx) # One THEN NormaliseMut(items, idx)
  ELSE items

\* The running sum adds  (probability || 0.1)  and the first candidate with
\* rand <= sum is returned; 0 stands for `undefined` (loop fell through).
PickFrom(items, idx, rand) ==
  LET hit == {j \in 1 .. Len(idx) :
                RLeq(Num(rand, RandDen), SumFrom(items, idx, j, Num(1, 10)))}
  IN IF hit = {} THEN 0
     ELSE idx[CHOOSE j \in hit : \A h \in hit : j <= h]

\* variant: the first turn counts as no progress
GameProgressFromZero(currentTurn, maxTurns) == Num(currentTurn - 1, maxTurns)

\* line 116: currentTurn / maxTurns
GameProgress(currentTurn, maxTurns) == Num(currentTurn, maxTurns)

\* variant: the filter of line 167 left out
IncludedAlways(ta, currentTurn, maxTurns) == TRUE

\* !threatActor.includeFrom || threatActor.includeFrom <= gameProgress,
\* with gameProgress = currentTurn / maxTurns
IncludedAt(ta, currentTurn, maxTurns) ==
  \/ ~Truthy(ta.includeFrom)
  \/ RLeq(ta.includeFrom, GameProgress(currentTurn, maxTurns))

RECURSIVE ThreatActorCandidatesUpTo(_, _, _, _)
\* this._threatActors.filter(...): positions of the kept actors, in order
ThreatActorCandidatesUpTo(actors, n, currentTurn, maxTurns) ==
  IF n = 0 THEN <<>>
  ELSE LET rest == ThreatActorCandidatesUpTo(actors, n - 1, currentTurn, maxTurns)
       IN IF IncludedAt(actors[n], currentTurn, maxTurns)
          THEN Append(rest, n) ELSE rest

ThreatActorCandidates(actors, currentTurn, maxTurns) ==
  ThreatActorCandidatesUpTo(actors, Len(actors), currentTurn, maxTurns)

RECURSIVE AssetCandidatesUpTo(_, _, _)
AssetCandidatesUpTo(assetList, n, allowUnavoidableIncidents) ==
  IF n = 0 THEN <<>>
  ELSE LET rest == AssetCandidatesUpTo(assetList, n - 1, allowUnavoidableIncidents)
       IN IF allowUnavoidableIncidents \/ assetList[n].withControls
          THEN Append(rest, n) ELSE rest

\* allowUnavoidableIncidents ? this._assets : this._assetsWithControls
AssetCandidates(assetList, allowUnavoidableIncidents) ==
  AssetCandidatesUpTo(assetList, Len(assetList), allowUnavoidableIncidents)

(* ------------------------- security areas ------------------------------ *)
\* Math.floor(Math.random() * (3 - 1 + 1) + 1)
NumOfSecurityAreas(rand) == ((rand * 3) \div RandDen) + 1

\* Math.floor(Math.random() * (allSecurityAreas.length - 1 - 0) + 0),
\* as a 1-based position; for an empty list the index is -1 (or -0) and the
\* element read is `undefined` (position 0 here).
RandIdx(len, rand) ==
  IF len = 0 THEN 0 ELSE ((rand * (len - 1)) \div RandDen) + 1

RemoveAt(s, i) == [j \in 1 .. (Len(s) - 1) |-> IF j < i THEN s[j] ELSE s[j + 1]]

RECURSIVE SampleAreas(_, _, _, _)
\* the loop of _generateSecurityAreas: `rands` are the index draws; the
\* result holds area positions of the catalog, 0 for an `undefined` element
SampleAreas(all, n, rands, acc) ==
  IF n = 0 THEN acc
  ELSE LET i == RandIdx(Len(all), Head(rands)) IN
       IF i = 0 THEN SampleAreas(all, n - 1, Tail(rands), Append(acc, 0))
       ELSE SampleAreas(RemoveAt(all, i), n - 1, Tail(rands), Append(acc, all[i]))

RECURSIVE InsertSorted(_, _, _)
\* stable insertion of area x by Number(a.number) - Number(b.number)
InsertSorted(catalog, s, x) ==
  IF s = <<>> THEN <<x>>
  ELSE IF catalog[x].number < catalog[s[Len(s)]].number
       THEN Append(InsertSorted(catalog, SubSeq(s, 1, Len(s) - 1), x), s[Len(s)])
       ELSE Append(s, x)

RECURSIVE SortAreas(_, _)
SortAreas(catalog, s) ==
  IF s = <<>> THEN <<>>
  ELSE InsertSorted(catalog, SortAreas(catalog, SubSeq(s, 1, Len(s) - 1)), s[Len(s)])

\* _generateSecurityAreas(source): the sorted area ids, or <<0>> when an
\* element is undefined (the comparator or the caller's map() then throws).
GenerateSecurityAreas(catalog, numRand, idxRands) ==
  LET picked == SampleAreas([i \in 1 .. Len(catalog) |-> i],
                            NumOfSecurityAreas(numRand), idxRands, <<>>)
  IN IF 0 \in Range(picked) THEN <<0>> ELSE SortAreas(catalog, picked)

(* ------------------------------- cost ---------------------------------- *)
\* Number((Math.random() * (max - min + 1) + min).toFixed(2)) in hundredths
BaseCostCents(min, max, rand) ==
  min * 100 + ((2 * rand * (max - min + 1) * 100 + RandDen) \div (2 * RandDen))

\* ... * costModifier, as Money (costModifier in hundredths)
GenerateCost(min, max, costModifier, rand) ==
  BaseCostCents(min, max, rand) * costModifier * 100

\* variant: the upper bound is inclusive
NumOfEventsInclusive(min, max, rand) == ((rand * (max - min + 1)) \div RandDen) + min

\* Math.floor(Math.random() * (maxNumOfEvents - minNumOfEvents) + minNumOfEvents)
NumOfEvents(min, max, rand) == ((rand * (max - min)) \div RandDen) + min


(* ============================ the store ================================ *)
VARIABLES
  game,           \* the Game document
  orgs,           \* Organisation documents, by id (position)
  events,         \* Event documents, by id (position)
  threatActors,   \* SimulationsService._threatActors
  assets,         \* SimulationsService._assets (withControls: also in _assetsWithControls)
  securityAreas,  \* SecurityArea documents of the game's source
  req,            \* simulate-turn requests in flight
  buy,            \* the control purchase in flight
  pendingSaves,   \* game saves issued and not awaited
  response,       \* the last response sent to a simulate-turn caller
  arrivals,       \* simulate-turn requests received so far
  refreshTokens,  \* RefreshToken documents
  tokensIssued,   \* refresh tokens generated so far
  refresh,        \* refresh-token requests in flight
  refreshResponse \* the last response sent to a refresh-token caller

store == <<game, orgs, events, threatActors, assets, securityAreas, req, buy,
           pendingSaves, response, arrivals>>

sessions == <<refreshTokens, tokensIssued, refresh, refreshResponse>>

vars == <<game, orgs, events, threatActors, assets, securityAreas, req, buy,
          pendingSaves, response, arrivals,
          refreshTokens, tokensIssued, refresh, refreshResponse>>

Requests == 1 .. 2

UndefinedCost == -1

\* Control.asset is optional: the value of a control that has none
NoAsset == "undefined"

\* contrib/controls.json, reduced: cost, effectiveness (hundredths of the
\* fraction), asset, securityAreas, source
ControlCatalog ==
  << [cost |-> Money(2), effectiveness |-> 50, asset |-> "desktop",
      securityAreas |-> {1}, source |-> "original"],
     [cost |-> Money(3), effectiveness |-> 100, asset |-> "desktop",
      securityAreas |-> {2}, source |-> "original"],
     [cost |-> Money(2), effectiveness |-> 50, asset |-> "router",
      securityAreas |-> {1}, source |-> "original"],
     [cost |-> Money(2), effectiveness |-> 50, asset |-> NoAsset,
      securityAreas |-> {1}, source |-> "original"] >>

\* ControlsService.filterAssetsWithControls(assets, source = 'original')
HasControls(slug, source) ==
  \E c \in DOMAIN ControlCatalog :
     ControlCatalog[c].asset = slug /\ ControlCatalog[c].source = source

NewOrganisation(balance) ==
  [balance |-> balance, pastBalances |-> <<>>, controls |-> <<>>, events |-> <<>>]

NoDoc == NewOrganisation(0)

IdleReq ==
  [pc |-> "idle", org |-> NoOrg, turn |-> 0, num |-> 0,
   evs |-> <<>>, orgsL |-> <<>>, cur |-> 0, oi |-> 0, ei |-> 0,
   doc |-> NoDoc, mit |-> FALSE, setState |-> FALSE]

IdleBuy == [pc |-> "idle", org |-> NoOrg, control |-> 0, doc |-> NoDoc]

\* the free slot a new request takes
Free(r) == req[r].pc = "idle" /\ \A q \in Requests : q < r => req[q].pc # "idle"

\* nothing is in flight
Quiescent ==
  (\A r \in Requests : req[r].pc = "idle") /\ buy.pc = "idle" /\ pendingSaves = {}

NoResponse == ""
InvalidToken == "Invalid token"
Created == "201"
Ok == "200"
Forbidden == "403 Game is already finished"
AlreadySet == "500 Past balance already set!"
TypeError == "500 TypeError"

(* --------------------------- initial states ---------------------------- *)
ActorCatalogs ==
  { <<>>,
    << [slug |-> "script-kiddie", probability |-> Num(1, 1),
        includeFrom |-> Undefined, costModifier |-> 100] >> }

AssetCatalogs ==
  { <<>>,
    << [slug |-> "desktop", probability |-> Num(1, 1),
        withControls |-> HasControls("desktop", "original")] >> }

AreaCatalogs ==
  { <<>>,
    << [number |-> 1], [number |-> 2] >> }

\* at most one catalog is empty
CatalogChoices ==
  { c \in ActorCatalogs \X AssetCatalogs \X AreaCatalogs :
      Cardinality({i \in 1 .. 3 : c[i] = <<>>}) <= 1 }

FullCatalogs ==
  CHOOSE c \in CatalogChoices : \A i \in 1 .. 3 : c[i] # <<>>

NewGame(gameType, maxTurns, maxNumOfEvents, numOrgs) ==
  [gameType |-> gameType, state |-> Purchasing, currentTurn |-> 1,
   maxTurns |-> maxTurns, moneyPerTurn |-> Money(5),
   minNumOfEvents |-> 1, maxNumOfEvents |-> maxNumOfEvents,
   minCostPerEvent |-> 1, maxCostPerEvent |-> 1,
   allowUnavoidableIncidents |-> TRUE, source |-> "original",
   organisations |-> [i \in 1 .. numOrgs |-> i], readyOrganisations |-> <<>>]

StartingBalances == {0, Money(10)}

RefreshRequests == 1 .. 2

IdleRefresh == [pc |-> "idle", token |-> 0, isAdmin |-> FALSE, user |-> 0, new |-> 0]

NoRefreshResponse == [status |-> "", token |-> 0, isAdmin |-> FALSE, refreshToken |-> 0]

\* the refresh tokens in the store, none of them in use
Sessions(tokens) ==
  /\ refreshTokens = tokens
  /\ tokensIssued = Cardinality(tokens)
  /\ refresh = [q \in RefreshRequests |-> IdleRefresh]
  /\ refreshResponse = NoRefreshResponse

InitGame(gameType, maxTurns, maxNumOfEvents, balances, catalogs) ==
  /\ game = NewGame(gameType, maxTurns, maxNumOfEvents, Len(balances))
  /\ orgs = [i \in DOMAIN balances |-> NewOrganisation(balances[i])]
  /\ events = <<>>
  /\ threatActors = catalogs[1]
  /\ assets = catalogs[2]
  /\ securityAreas = catalogs[3]
  /\ req = [r \in Requests |-> IdleReq]
  /\ buy = IdleBuy
  /\ pendingSaves = {}
  /\ response = NoResponse
  /\ arrivals = 0

InitStore(gameType, maxTurns, maxNumOfEvents, balances, catalogs) ==
  /\ InitGame(gameType, maxTurns, maxNumOfEvents, balances, catalogs)
  /\ Sessions({})

Init ==
  \E gameType \in GameType, maxTurns \in 1 .. MaxTurnsBound,
     balance \in StartingBalances, catalogs \in CatalogChoices :
       InitStore(gameType, maxTurns, 2, <<balance>>, catalogs)

(* ===================== GamesService.simulateTurn ======================= *)
\* variant: the rejection is swallowed and the turn is advanced all the same
RejectedThenAdvanced(q) == [IdleReq EXCEPT !.pc = "advance"]

\* line 490: a rejected await leaves simulateTurn, lines 492-503 are skipped
Rejected(q) == IdleReq

\* variant: the state check of line 474 left out
GameIsNeverFinished(g) == FALSE

\* line 474
GameIsFinished(g) == g.state = Ended

\* variant: the caller is entered twice
ReadyPushTwice(ready, o) == Append(Append(ready, o), o)

\* line 477: game.readyOrganisations.push(organisationId)
ReadyPush(ready, o) == Append(ready, o)

\* line 478: game.readyOrganisations.length < game.organisations.length
StillWaiting(g, o) ==
  Len(ReadyPush(g.readyOrganisations, o)) < Len(g.organisations)

\* lines 469-488 up to the awaited save
Begin(r, o) ==
  /\ Free(r)
  /\ arrivals < MaxRequests
  /\ arrivals' = arrivals + 1
  /\ o \in {NoOrg} \cup Range(game.organisations)
  /\ IF GameIsFinished(game)
     THEN /\ response' = Forbidden
          /\ UNCHANGED req
     ELSE /\ response' = NoResponse
          /\ req' = [req EXCEPT ![r] =
               IF game.gameType = Competitive /\ StillWaiting(game, o)
               THEN [IdleReq EXCEPT !.pc = "saveReady", !.org = o]
               ELSE [IdleReq EXCEPT !.pc = "saveSimulating", !.org = o,
                                    !.setState = (game.state # Simulating)]]
  /\ UNCHANGED <<game, orgs, events, threatActors, assets, securityAreas, buy, pendingSaves, sessions>>

\* line 479: the pushed organisation reaches the store; line 480 returns
SaveReady(r) ==
  /\ req[r].pc = "saveReady"
  /\ game' = [game EXCEPT !.readyOrganisations = ReadyPush(@, req[r].org)]
  /\ req' = [req EXCEPT ![r] = IdleReq]
  /\ response' = Ok
  /\ UNCHANGED <<orgs, events, threatActors, assets, securityAreas, buy, pendingSaves, arrivals, sessions>>

\* lines 484-488; save() sends the paths whose value the handler changed
SaveSimulating(r) ==
  /\ req[r].pc = "saveSimulating"
  /\ game' = [game EXCEPT !.readyOrganisations = <<>>,
                          !.state = IF req[r].setState THEN Simulating ELSE @]
  /\ req' = [req EXCEPT ![r].pc = "getGame"]
  /\ UNCHANGED <<orgs, events, threatActors, assets, securityAreas, buy, pendingSaves, response, arrivals, sessions>>


(* ================= SimulationsService.simulateTurn ===================== *)
\* _simulateEventsForTurn, lines 99-113: gamesService.get and the event count
GetGame(r) ==
  /\ req[r].pc = "getGame"
  /\ \E rand \in Rand :
       LET n == NumOfEvents(game.minNumOfEvents, game.maxNumOfEvents, rand)
       IN req' = [req EXCEPT ![r].turn = game.currentTurn, ![r].num = n,
                             ![r].pc = IF n >= 1 THEN "generateEvent" ELSE "findGame"]
  /\ UNCHANGED <<game, orgs, events, threatActors, assets, securityAreas, buy, pendingSaves, response, arrivals, sessions>>

\* one iteration of the loop of lines 115-130; each Math.random() call is
\* an independent draw, so each generated attribute ranges over the values
\* its own draws can produce
GenerateEvent(r) ==
  /\ req[r].pc = "generateEvent"
  /\ LET actorIdx == ThreatActorCandidates(threatActors, req[r].turn, game.maxTurns)
         actors1 == Normalise(threatActors, actorIdx)
         assetIdx == AssetCandidates(assets, game.allowUnavoidableIncidents)
         assets1 == Normalise(assets, assetIdx)
     IN \E actor \in {PickFrom(actors1, actorIdx, rand) : rand \in Rand},
           asset \in {PickFrom(assets1, assetIdx, rand) : rand \in Rand},
           areas \in {GenerateSecurityAreas(securityAreas, rand, rIdx) :
                        rand \in Rand, rIdx \in [1 .. 3 -> Rand]},
           rCost \in Rand :
          /\ threatActors' = actors1
          /\ assets' = assets1
          /\ IF actor = 0 \/ asset = 0 \/ areas = <<0>>
             THEN /\ req' = [req EXCEPT ![r] = Rejected(@)]
                  /\ response' = TypeError
                  /\ UNCHANGED events
             ELSE /\ events' = Append(events,
                       [turn |-> req[r].turn,
                        cost |-> GenerateCost(game.minCostPerEvent, game.maxCostPerEvent,
                                              actors1[actor].costModifier, rCost),
                        threatActor |-> actors1[actor].slug,
                        asset |-> assets1[asset].slug,
                        securityAreas |-> areas])
                  /\ UNCHANGED response
                  /\ req' = [req EXCEPT
                       ![r].evs = Append(@, Len(events) + 1),
                       ![r].pc = IF Len(req[r].evs) + 1 >= req[r].num
                                 THEN "findGame" ELSE "generateEvent"]
  /\ UNCHANGED <<game, orgs, securityAreas, buy, pendingSaves, arrivals, sessions>>

\* line 66
FindGame(r) ==
  /\ req[r].pc = "findGame"
  /\ req' = [req EXCEPT ![r].orgsL = game.organisations, ![r].cur = game.currentTurn,
                        ![r].oi = 1, ![r].pc = "saveBalance"]
  /\ UNCHANGED <<game, orgs, events, threatActors, assets, securityAreas, buy, pendingSaves, response, arrivals, sessions>>

\* variant: an organisation is credited as soon as its events are applied
CreditThisOrganisation(q) ==
  [q EXCEPT !.ei = 0, !.doc = NoDoc, !.mit = FALSE, !.pc = "simulateNewTurn"]

\* after an organisation's events: the next organisation, or the second loop
NextOrganisation(q) ==
  IF q.oi < Len(q.orgsL)
  THEN [q EXCEPT !.oi = @ + 1, !.ei = 0, !.doc = NoDoc, !.mit = FALSE, !.pc = "saveBalance"]
  ELSE [q EXCEPT !.oi = 1, !.ei = 0, !.doc = NoDoc, !.mit = FALSE, !.pc = "simulateNewTurn"]

(* ------------------ OrganisationsService.saveBalance ------------------- *)
\* if (organisation.pastBalances[currentTurn - 1])
PastBalanceSet(org, currentTurn) ==
  /\ currentTurn >= 1
  /\ Len(org.pastBalances) >= currentTurn
  /\ org.pastBalances[currentTurn] # 0

\* lines 365-368
SaveBalance(r) ==
  /\ req[r].pc = "saveBalance"
  /\ LET o == req[r].orgsL[req[r].oi] IN
       IF PastBalanceSet(orgs[o], req[r].cur)
       THEN /\ req' = [req EXCEPT ![r] = Rejected(@)]
            /\ response' = AlreadySet
       ELSE /\ req' = [req EXCEPT ![r].doc = orgs[o], ![r].pc = "saveBalanceSave"]
            /\ UNCHANGED response
  /\ UNCHANGED <<game, orgs, events, threatActors, assets, securityAreas, buy, pendingSaves, arrivals, sessions>>

\* line 370
SaveBalanceSave(r) ==
  /\ req[r].pc = "saveBalanceSave"
  /\ LET o == req[r].orgsL[req[r].oi] IN
       orgs' = [orgs EXCEPT ![o].pastBalances = Append(@, req[r].doc.balance)]
  /\ req' = [req EXCEPT ![r] =
       IF Len(req[r].evs) >= 1
       THEN [@ EXCEPT !.ei = 1, !.doc = NoDoc, !.pc = "simulateEvent"]
       ELSE NextOrganisation(@)]
  /\ UNCHANGED <<game, events, threatActors, assets, securityAreas, buy, pendingSaves, response, arrivals, sessions>>

(* ----------------- OrganisationsService.simulateEvent ------------------ *)
\* variant: the asset is not compared
MitigatesByAreaOnly(control, event) ==
  \E a \in control.securityAreas : a \in Range(event.securityAreas)

\* lines 308-313: some security area of the control is one of the event's
Mitigates(control, event) ==
  /\ control.asset = event.asset
  /\ \E a \in control.securityAreas : a \in Range(event.securityAreas)

\* variant: the last implemented control that mitigates
LastMitigatingControl(controls, event) ==
  LET hit == {i \in DOMAIN controls : Mitigates(ControlCatalog[controls[i].id], event)}
  IN IF hit = {} THEN 0 ELSE CHOOSE i \in hit : \A h \in hit : i >= h

\* the first implemented control that mitigates, 0 if none
MitigatingControl(controls, event) ==
  LET hit == {i \in DOMAIN controls : Mitigates(ControlCatalog[controls[i].id], event)}
  IN IF hit = {} THEN 0 ELSE CHOOSE i \in hit : \A h \in hit : i <= h

\* line 317
MitigatedCost(cost, effectiveness) == cost - ((cost * effectiveness) \div 100)

\* variant: the counter is set to the last amount mitigated
LastMitigation(mitigation, cost, mitigatedCost) == cost - mitigatedCost

\* line 318: control.mitigation += event.cost - mitigatedCost
Mitigation(mitigation, cost, mitigatedCost) == mitigation + (cost - mitigatedCost)

\* line 327: mitigatedCost || event.cost
Debit(mitigatedCost, cost) ==
  IF mitigatedCost # UndefinedCost /\ mitigatedCost # 0 THEN mitigatedCost ELSE cost

\* lines 302-327, on the document read at line 302
SimulateEvent(r) ==
  /\ req[r].pc = "simulateEvent"
  /\ LET o == req[r].orgsL[req[r].oi]
         id == req[r].evs[req[r].ei]
         event == events[id]
         m == MitigatingControl(orgs[o].controls, event)
         mitigatedCost ==
           IF m = 0 THEN UndefinedCost
           ELSE MitigatedCost(event.cost, ControlCatalog[orgs[o].controls[m].id].effectiveness)
         entry == [id |-> id, turn |-> event.turn, cost |-> event.cost,
                   mitigated |-> (m # 0),
                   mitigatedBy |-> IF m = 0 THEN 0 ELSE orgs[o].controls[m].id,
                   mitigatedCost |-> mitigatedCost]
     IN req' = [req EXCEPT
          ![r].doc = [orgs[o] EXCEPT
             !.controls = IF m = 0 THEN @
                          ELSE [@ EXCEPT ![m].mitigation = Mitigation(@, event.cost, mitigatedCost)],
             !.events = Append(@, entry),
             !.balance = @ - Debit(mitigatedCost, event.cost)],
          ![r].mit = (m # 0),
          ![r].pc = "simulateEventSave"]
  /\ UNCHANGED <<game, orgs, events, threatActors, assets, securityAreas, buy, pendingSaves, response, arrivals, sessions>>

\* variant: the loop over the turn's events stops after the first
NoEventLeft(q) == FALSE

\* line 74: for (const event of events), another event follows
EventLeft(q) == q.ei < Len(q.evs)

\* line 329: events is pushed, balance and (if marked) controls are set
SimulateEventSave(r) ==
  /\ req[r].pc = "simulateEventSave"
  /\ LET o == req[r].orgsL[req[r].oi]
         d == req[r].doc
     IN orgs' = [orgs EXCEPT
          ![o].events = Append(@, d.events[Len(d.events)]),
          ![o].balance = d.balance,
          ![o].controls = IF req[r].mit THEN d.controls ELSE @]
  /\ req' = [req EXCEPT ![r] =
       IF EventLeft(req[r])
       THEN [@ EXCEPT !.ei = @ + 1, !.doc = NoDoc, !.mit = FALSE, !.pc = "simulateEvent"]
       ELSE NextOrganisation(@)]
  /\ UNCHANGED <<game, events, threatActors, assets, securityAreas, buy, pendingSaves, response, arrivals, sessions>>

(* ---------------- OrganisationsService.simulateNewTurn ----------------- *)
\* lines 356-357
SimulateNewTurn(r) ==
  /\ req[r].pc = "simulateNewTurn"
  /\ LET o == req[r].orgsL[req[r].oi] IN
       req' = [req EXCEPT
          ![r].doc = [orgs[o] EXCEPT !.balance = @ + game.moneyPerTurn],
          ![r].pc = "simulateNewTurnSave"]
  /\ UNCHANGED <<game, orgs, events, threatActors, assets, securityAreas, buy, pendingSaves, response, arrivals, sessions>>

\* line 359
SimulateNewTurnSave(r) ==
  /\ req[r].pc = "simulateNewTurnSave"
  /\ LET o == req[r].orgsL[req[r].oi] IN
       orgs' = [orgs EXCEPT ![o].balance = req[r].doc.balance]
  /\ req' = [req EXCEPT ![r] =
       IF req[r].oi < Len(req[r].orgsL)
       THEN [@ EXCEPT !.oi = @ + 1, !.doc = NoDoc, !.pc = "simulateNewTurn"]
       ELSE [@ EXCEPT !.doc = NoDoc, !.pc = "advance"]]
  /\ UNCHANGED <<game, events, threatActors, assets, securityAreas, buy, pendingSaves, response, arrivals, sessions>>

(* ============== GamesService.simulateTurn, lines 492-505 =============== *)
\* variant: the turn counter is left where it is
SameTurn(currentTurn) == currentTurn

\* line 499: updatedGame.currentTurn++
NextTurn(currentTurn) == currentTurn + 1

\* variant: the last turn is taken to be the one before maxTurns
IsTurnBeforeLast(g) == g.currentTurn + 1 >= g.maxTurns

\* line 497
IsLastTurn(g) == g.currentTurn >= g.maxTurns

\* variant: the turn counter is advanced on the last turn as well
AdvancedGameCounting(g) ==
  [g EXCEPT !.currentTurn = @ + 1,
            !.state = IF IsLastTurn(g) THEN Ended ELSE Purchasing]

\* lines 497-501
AdvancedGame(g) ==
  IF IsLastTurn(g)
  THEN [g EXCEPT !.state = Ended]
  ELSE [g EXCEPT !.currentTurn = NextTurn(@), !.state = Purchasing]

\* updatedGame.save() is issued and not awaited; the game is returned
Advance(r) ==
  /\ req[r].pc = "advance"
  /\ LET g == AdvancedGame(game) IN
       pendingSaves' = pendingSaves \cup
          { [currentTurn |-> g.currentTurn, state |-> g.state,
             setTurn |-> (g.currentTurn # game.currentTurn),
             setState |-> (g.state # game.state)] }
  /\ req' = [req EXCEPT ![r] = IdleReq]
  /\ response' = Ok
  /\ UNCHANGED <<game, orgs, events, threatActors, assets, securityAreas, buy, arrivals, sessions>>

\* the save of line 503 reaches the store
UpdatedGameSaved ==
  \E d \in pendingSaves :
    /\ game' = [game EXCEPT
         !.currentTurn = IF d.setTurn THEN d.currentTurn ELSE @,
         !.state = IF d.setState THEN d.state ELSE @]
    /\ pendingSaves' = pendingSaves \ {d}
    /\ UNCHANGED <<orgs, events, threatActors, assets, securityAreas, req, buy, response, arrivals, sessions>>

(* ================= OrganisationsService.addControl ===================== *)
\* variant: a purchase never takes the balance below zero
PurchasedWithinBalance(org, c) ==
  [org EXCEPT
     !.controls = Append(@, [id |-> c, mitigation |-> 0, turnImplemented |-> 0]),
     !.balance = IF @ < ControlCatalog[c].cost THEN 0 ELSE @ - ControlCatalog[c].cost]

\* lines 215-217
Purchased(org, c) ==
  [org EXCEPT
     !.controls = Append(@, [id |-> c, mitigation |-> 0, turnImplemented |-> 0]),
     !.balance = @ - ControlCatalog[c].cost]

\* lines 209-218
AddControl(o, c) ==
  /\ buy.pc = "idle"
  /\ o \in DOMAIN orgs
  /\ c \in DOMAIN ControlCatalog
  /\ Len(orgs[o].controls) < MaxControls
  /\ buy' = [pc |-> "save", org |-> o, control |-> c, doc |-> Purchased(orgs[o], c)]
  /\ UNCHANGED <<game, orgs, events, threatActors, assets, securityAreas, req, pendingSaves, response, arrivals, sessions>>

\* line 220: controls is pushed, balance is set
AddControlSave ==
  /\ buy.pc = "save"
  /\ LET d == buy.doc IN
       orgs' = [orgs EXCEPT
          ![buy.org].controls = Append(@, d.controls[Len(d.controls)]),
          ![buy.org].balance = d.balance]
  /\ buy' = IdleBuy
  /\ UNCHANGED <<game, events, threatActors, assets, securityAreas, req, pendingSaves, response, arrivals, sessions>>

(* ================== GamesService.addOrganisation ======================= *)
\* lines 285-291
AddOrganisation(balance) ==
  /\ Len(orgs) < MaxOrgs
  /\ orgs' = Append(orgs, NewOrganisation(balance))
  /\ game' = [game EXCEPT !.organisations = Append(@, Len(orgs) + 1)]
  /\ UNCHANGED <<events, threatActors, assets, securityAreas, req, buy, pendingSaves, response, arrivals, sessions>>

(* ===================== UsersService.refreshToken ======================= *)
\* line 264: RefreshToken.findOne({ token, isAdmin })
Found(tokens, token, isAdmin) ==
  {d \in tokens : d.token = token /\ d.isAdmin = isAdmin}

\* variant: the old token is kept
RevokedNothing(tokens, token, isAdmin) == tokens

\* line 230: RefreshToken.deleteOne({ token, isAdmin })
Revoked(tokens, token, isAdmin) == tokens \ Found(tokens, token, isAdmin)

\* lines 175-184: _getRefreshToken throws 'Invalid token' or the new token
\* is generated; crypto.randomBytes(40) is a value not issued before
RefreshBegin(q, token, isAdmin) ==
  /\ refresh[q].pc = "idle"
  /\ tokensIssued < MaxTokens
  /\ LET found == Found(refreshTokens, token, isAdmin) IN
       IF found = {}
       THEN /\ refreshResponse' = [status |-> InvalidToken, token |-> token,
                                   isAdmin |-> isAdmin, refreshToken |-> 0]
            /\ UNCHANGED <<refresh, tokensIssued>>
       ELSE /\ refresh' = [refresh EXCEPT ![q] =
                 [pc |-> "save", token |-> token, isAdmin |-> isAdmin,
                  user |-> (CHOOSE d \in found : TRUE).user,
                  new |-> tokensIssued + 1]]
            /\ tokensIssued' = tokensIssued + 1
            /\ UNCHANGED refreshResponse
  /\ UNCHANGED <<refreshTokens, store>>

\* line 185: newRefreshToken.save()
RefreshSave(q) ==
  /\ refresh[q].pc = "save"
  /\ refreshTokens' = refreshTokens \cup
       { [token |-> refresh[q].new, user |-> refresh[q].user,
          isAdmin |-> refresh[q].isAdmin] }
  /\ refresh' = [refresh EXCEPT ![q].pc = "revoke"]
  /\ UNCHANGED <<tokensIssued, refreshResponse, store>>

\* lines 186-196: the old token is revoked and the new one returned
RefreshRevoke(q) ==
  /\ refresh[q].pc = "revoke"
  /\ refreshTokens' = Revoked(refreshTokens, refresh[q].token, refresh[q].isAdmin)
  /\ refreshResponse' = [status |-> Created, token |-> refresh[q].token,
                         isAdmin |-> refresh[q].isAdmin,
                         refreshToken |-> refresh[q].new]
  /\ refresh' = [refresh EXCEPT ![q] = IdleRefresh]
  /\ UNCHANGED <<tokensIssued, store>>

(* ========================== specifications ============================= *)
\* a client request arrives
Arrive ==
  \/ \E r \in Requests, o \in 0 .. MaxOrgs : Begin(r, o)
  \/ \E o \in 1 .. MaxOrgs, c \in DOMAIN ControlCatalog :
        o \in DOMAIN orgs /\ orgs[o].controls = <<>> /\ AddControl(o, c)
  \/ AddOrganisation(0)

\* a request that simulates the turn continues past an await
Simulation ==
  \/ \E r \in Requests : SaveSimulating(r)
  \/ \E r \in Requests : GetGame(r)
  \/ \E r \in Requests : GenerateEvent(r)
  \/ \E r \in Requests : FindGame(r)
  \/ \E r \in Requests : SaveBalance(r)
  \/ \E r \in Requests : SaveBalanceSave(r)
  \/ \E r \in Requests : SimulateEvent(r)
  \/ \E r \in Requests : SimulateEventSave(r)
  \/ \E r \in Requests : SimulateNewTurn(r)
  \/ \E r \in Requests : SimulateNewTurnSave(r)
  \/ \E r \in Requests : Advance(r)
  \/ UpdatedGameSaved

\* a simulate-turn request in flight continues past an await
Continue ==
  \/ \E r \in Requests : SaveReady(r)
  \/ Simulation

\* Serial clients: each request arrives after the previous one and all of
\* its writes have finished.
NextSerial == (Quiescent /\ Arrive) \/ Continue \/ AddControlSave

SpecSerial == Init /\ [][NextSerial]_vars

\* Racing clients: simulate-turn requests for one game arrive at any time,
\* two of them in flight at once; the game has its organisations already.
\* The requests considered are one round of ready signals and one more.
InitRace ==
  \E gameType \in {SinglePlayer, Competitive}, balance \in StartingBalances :
     InitStore(gameType, MaxTurnsBound, 2,
               IF gameType = Competitive THEN <<0, Money(10)>> ELSE <<balance>>,
               FullCatalogs)

RaceRequests == Len(game.organisations) + 1

NextRace ==
  \/ arrivals < RaceRequests /\ \E r \in Requests, o \in 1 .. MaxOrgs : Begin(r, o)
  \/ Continue

SpecRace == InitRace /\ [][NextRace]_vars

\* Purchases and a turn: the first of the two organisations of a one-turn
\* Cooperative game buys up to MaxControls controls before and after the
\* turn; the turn has one or two events.
InitPlay ==
  InitStore(Cooperative, 1, 3, <<Money(10), 0>>, FullCatalogs)

NextPlay ==
  \/ Quiescent /\ \E r \in Requests : Begin(r, NoOrg)
  \/ Quiescent /\ \E c \in DOMAIN ControlCatalog : AddControl(1, c)
  \/ Simulation
  \/ AddControlSave

SpecPlay == InitPlay /\ [][NextPlay]_vars

\* Event generation over varied settings: catalogs whose items lack a
\* probability or carry an includeFrom, one or two security areas, both
\* values of allowUnavoidableIncidents, a game source other than 'original'.
GenActorCatalogs ==
  { << [slug |-> "script-kiddie", probability |-> Undefined,
        includeFrom |-> Undefined, costModifier |-> 25],
       [slug |-> "nation-state", probability |-> Num(1, 2),
        includeFrom |-> Num(3, 4), costModifier |-> 200] >>,
    << [slug |-> "script-kiddie", probability |-> Num(1, 4),
        includeFrom |-> Undefined, costModifier |-> 25],
       [slug |-> "nation-state", probability |-> Num(3, 4),
        includeFrom |-> Num(3, 4), costModifier |-> 200] >> }

GenAssetCatalogs ==
  { << [slug |-> "desktop", probability |-> Num(1, 1),
        withControls |-> HasControls("desktop", "original")] >>,
    << [slug |-> "desktop", probability |-> Undefined,
        withControls |-> HasControls("desktop", "original")],
       [slug |-> "cloud", probability |-> Undefined,
        withControls |-> HasControls("cloud", "original")] >> }

GenAreaCatalogs ==
  { << [number |-> 1] >>,
    << [number |-> 1], [number |-> 2] >> }

Sources == {"original", "custom"}

InitGen ==
  \E actors \in GenActorCatalogs, assetList \in GenAssetCatalogs,
     areas \in GenAreaCatalogs, maxNumOfEvents \in 2 .. 3,
     allowUnavoidableIncidents \in BOOLEAN, source \in Sources :
       /\ game = [NewGame(SinglePlayer, MaxTurnsBound, maxNumOfEvents, 1) EXCEPT
                    !.allowUnavoidableIncidents = allowUnavoidableIncidents,
                    !.source = source]
       /\ orgs = << NewOrganisation(Money(10)) >>
       /\ events = <<>>
       /\ threatActors = actors
       /\ assets = assetList
       /\ securityAreas = areas
       /\ req = [r \in Requests |-> IdleReq]
       /\ buy = IdleBuy
       /\ pendingSaves = {}
       /\ response = NoResponse
       /\ arrivals = 0
       /\ Sessions({})

\* one request a turn
GenRequests == game.maxTurns

NextGen ==
  \/ Quiescent /\ arrivals < GenRequests /\ \E r \in Requests : Begin(r, NoOrg)
  \/ Simulation

SpecGen == InitGen /\ [][NextGen]_vars

\* Security-area sampling over catalogs of different sizes, one event in a
\* one-turn game.  (A catalog of three areas is left out: its last area
\* needs a drawn count of 3, which takes a draw of at least 2/3.)
SizedAreaCatalogs ==
  { << [number |-> 1] >>,
    << [number |-> 1], [number |-> 2] >>,
    << [number |-> 1], [number |-> 2], [number |-> 3], [number |-> 4] >> }

InitAreas ==
  \E areas \in SizedAreaCatalogs :
     InitStore(SinglePlayer, 1, 2, <<Money(10)>>,
               <<FullCatalogs[1], FullCatalogs[2], areas>>)

NextAreas ==
  \/ Quiescent /\ arrivals < 1 /\ \E r \in Requests : Begin(r, NoOrg)
  \/ Simulation

SpecAreas == InitAreas /\ [][NextAreas]_vars

\* Purchases during a turn: the organisation of a one-turn game buys up to
\* MaxControls controls at any time, also while its turn is simulated.
InitBuy ==
  InitStore(SinglePlayer, 1, 2, <<Money(10)>>, FullCatalogs)

NextBuy ==
  \/ arrivals < 1 /\ \E r \in Requests : Begin(r, NoOrg)
  \/ \E c \in DOMAIN ControlCatalog : AddControl(1, c)
  \/ Simulation
  \/ AddControlSave

SpecBuy == InitBuy /\ [][NextBuy]_vars

\* Token refreshes: a user and an admin have logged in and hold refresh
\* token 1 and admin refresh token 2; clients present any token to either
\* refresh route, except one that is generated and not yet returned; two
\* requests are in flight at once.
InitTokens ==
  /\ InitGame(SinglePlayer, 1, 2, <<0>>, FullCatalogs)
  /\ Sessions({ [token |-> 1, user |-> 1, isAdmin |-> FALSE],
                [token |-> 2, user |-> 2, isAdmin |-> TRUE] })

NextTokens ==
  \/ \E q \in RefreshRequests, token \in 1 .. MaxTokens, isAdmin \in BOOLEAN :
        /\ \A p \in RefreshRequests : refresh[p].new # token
        /\ RefreshBegin(q, token, isAdmin)
  \/ \E q \in RefreshRequests : RefreshSave(q)
  \/ \E q \in RefreshRequests : RefreshRevoke(q)

SpecTokens == InitTokens /\ [][NextTokens]_vars

(* ============================ properties =============================== *)
\* C1: a simulate-turn request received while the game's state is Ended is
\* answered with the 403 error and changes nothing that is stored: the game,
\* the organisations and the events stay as they are and no simulation is
\* started, whatever the game type.
EndedGameRejects ==
  [][(arrivals' # arrivals /\ game.state = Ended) =>
        /\ response' = Forbidden
        /\ game' = game /\ orgs' = orgs /\ events' = events
        /\ req' = req /\ pendingSaves' = pendingSaves]_vars

\* a Competitive game of two organisations has ended and a further request
\* has been refused
EndedCompetitiveGameRefused ==
  /\ response = Forbidden
  /\ game.state = Ended
  /\ game.gameType = Competitive
  /\ Len(game.organisations) = 2

\* C2: in a Competitive game a request goes on to simulate the turn only
\* when every organisation of the game is either registered in
\* readyOrganisations or is the caller itself.
OnlyAllReadyTriggers ==
  \A r \in Requests :
     (req[r].pc = "saveSimulating" /\ game.gameType = Competitive) =>
        Range(game.organisations) \subseteq
           (Range(game.readyOrganisations) \cup {req[r].org})

\* the turns for which events are stored
SimulatedTurns == {events[i].turn : i \in DOMAIN events}

\* C3: the game is Ended only with currentTurn = maxTurns, after exactly
\* maxTurns turns have been simulated (turns 1 .. maxTurns have events and
\* the first organisation has maxTurns recorded balances); a simulation that
\* completes issues the state Ended exactly when it started with
\* currentTurn = maxTurns, and the state changes to Ended only then.
EndsExactlyAfterMaxTurns ==
  /\ [](game.state = Ended =>
          /\ game.currentTurn = game.maxTurns
          /\ SimulatedTurns = 1 .. game.maxTurns
          /\ Len(orgs[1].pastBalances) = game.maxTurns)
  /\ [][/\ \A r \in Requests :
             (req[r].pc = "advance" /\ req'[r].pc = "idle") =>
                \A d \in pendingSaves' \ pendingSaves :
                   (d.state = Ended) <=> (req[r].turn = game.maxTurns)
        /\ (game.state # Ended /\ game'.state = Ended) =>
              (game.currentTurn = game.maxTurns /\ pendingSaves # {})]_vars

\* a game of MaxTurnsBound turns has ended
LongestGameEnded ==
  /\ game.state = Ended
  /\ game.maxTurns = MaxTurnsBound
  /\ Len(events) = MaxTurnsBound

\* C4: currentTurn stays within 1 .. maxTurns and never decreases, whatever
\* the requests do (simulate, wait, fail); once the state is Ended neither
\* currentTurn nor the state changes.
TurnCounterMonotone ==
  /\ [](1 <= game.currentTurn /\ game.currentTurn <= game.maxTurns)
  /\ [][/\ game'.currentTurn >= game.currentTurn
        /\ game.state = Ended =>
              (game'.state = Ended /\ game'.currentTurn = game.currentTurn)]_vars

\* the counter has advanced, the game has ended and a later request was made
AdvancedThenEnded ==
  /\ game.currentTurn > 1
  /\ game.state = Ended
  /\ response = Forbidden
  /\ game.gameType # Competitive

RECURSIVE ExpectedTurnCost(_, _, _)
\* the cost that the events evs[1 .. n] bring to an organisation holding
\* `controls`: cost * (1 - effectiveness) when mitigated, cost when not
ExpectedTurnCost(controls, evs, n) ==
  IF n = 0 THEN 0
  ELSE LET event == events[evs[n]]
           m == MitigatingControl(controls, event)
       IN ExpectedTurnCost(controls, evs, n - 1) +
          (IF m = 0 THEN event.cost
           ELSE MitigatedCost(event.cost, ControlCatalog[controls[m].id].effectiveness))

\* C5: when a turn's simulation has run through, every organisation's
\* balance is its balance before the turn (the one recorded for the turn),
\* less the cost of the turn's events to it, plus moneyPerTurn.
TurnBalanceIsExact ==
  \A r \in Requests :
     req[r].pc = "advance" =>
        \A i \in DOMAIN req[r].orgsL :
           LET org == orgs[req[r].orgsL[i]]
           IN org.balance =
                org.pastBalances[Len(org.pastBalances)]
                  - ExpectedTurnCost(org.controls, req[r].evs, Len(req[r].evs))
                  + game.moneyPerTurn

\* C6: saveBalance for turn t on an organisation that has a balance
\* recorded for turn t (pastBalances has an entry at index t - 1) fails
\* with 'Past balance already set!' and goes no further, whatever the
\* recorded value; pastBalances stays as it is.
RecordedSlotRefused ==
  [][\A r \in Requests :
        (/\ req[r].pc = "saveBalance"
         /\ req'[r] # req[r]
         /\ Len(orgs[req[r].orgsL[req[r].oi]].pastBalances) >= req[r].cur) =>
           /\ response' = AlreadySet
           /\ req'[r].pc = "idle"
           /\ orgs' = orgs]_vars

\* the largest number of events one simulation of the game generates
MostEventsOfOneTurn(g) ==
  LET n == {NumOfEvents(g.minNumOfEvents, g.maxNumOfEvents, rand) : rand \in Rand}
  IN CHOOSE m \in n : \A k \in n : k <= m

\* C7: however simulate-turn requests interleave, a turn is simulated at
\* most once: the events stored for a turn are those of one simulation and
\* an organisation has at most one balance recorded per turn reached.
TurnSimulatedOnce ==
  /\ \A t \in 1 .. game.maxTurns :
        Cardinality({i \in DOMAIN events : events[i].turn = t})
           <= MostEventsOfOneTurn(game)
  /\ \A o \in DOMAIN orgs : Len(orgs[o].pastBalances) <= game.currentTurn

\* C8: when the stored game leaves Simulating for Purchasing or Ended its
\* readyOrganisations is empty, also when requests arrived meanwhile.
ReadyEmptyAfterSimulation ==
  [][(game.state = Simulating /\ game'.state \in {Purchasing, Ended}) =>
        game'.readyOrganisations = <<>>]_vars

\* C9: in a Competitive game of two or more organisations in Purchasing, a
\* request that leaves the readiness list short of the organisations starts
\* no simulation, and its save appends the caller to readyOrganisations and
\* changes nothing else: state, currentTurn, the organisations and the
\* events stay as they are.
WaitingRequestFrame ==
  [][/\ (/\ arrivals' # arrivals
         /\ game.gameType = Competitive /\ game.state = Purchasing
         /\ Len(game.organisations) >= 2
         /\ Len(game.readyOrganisations) + 1 < Len(game.organisations)) =>
           /\ \E r \in Requests : req[r].pc = "idle" /\ req'[r].pc = "saveReady"
           /\ game' = game /\ orgs' = orgs /\ events' = events
     /\ \A r \in Requests :
           (/\ req[r].pc = "saveReady" /\ req'[r].pc = "idle"
            /\ game.state = Purchasing /\ Len(game.organisations) >= 2) =>
              /\ game' = [game EXCEPT !.readyOrganisations = Append(@, req[r].org)]
              /\ game'.state = Purchasing
              /\ orgs' = orgs /\ events' = events
              /\ pendingSaves' = pendingSaves
              /\ response' = Ok]_vars

\* the first request of a two-organisation Competitive game has been answered
\* and its caller waits
FirstCallerWaits ==
  /\ game.gameType = Competitive
  /\ Len(game.organisations) = 2
  /\ arrivals = 1
  /\ response = Ok
  /\ game.state = Purchasing
  /\ game.readyOrganisations = <<2>>

\* C10: with an empty threat-actor, asset or security-area catalog a
\* request that sets out to simulate the turn changes nothing that is
\* stored: the game, the organisations and the events stay as they were.
EmptyCatalogAbortsClean ==
  [][(/\ threatActors = <<>> \/ assets = <<>> \/ securityAreas = <<>>
      /\ \E r \in Requests :
            req[r].pc \notin {"idle", "saveReady"} /\ req'[r] # req[r]) =>
        (game' = game /\ orgs' = orgs /\ events' = events)]_vars

\* a catalog control and an event match: the same asset and a security
\* area in common
Matches(c, event) ==
  /\ ControlCatalog[c].asset = event.asset
  /\ ControlCatalog[c].securityAreas \cap Range(event.securityAreas) # {}

\* C11: simulateEvent on an event that none of the organisation's
\* implemented controls matches appends the event with mitigated = false and
\* no mitigatedBy, lowers the balance by event.cost and leaves the controls,
\* their mitigation counters included, as they are.
UnmatchedEventCostsInFull ==
  [][\A r \in Requests :
        (req[r].pc = "simulateEventSave" /\ req'[r] # req[r]) =>
           LET o == req[r].orgsL[req[r].oi]
               id == req[r].evs[req[r].ei]
               event == events[id]
               old == orgs[o]
               new == orgs'[o]
           IN (\A i \in DOMAIN old.controls : ~Matches(old.controls[i].id, event)) =>
                 /\ Len(new.events) = Len(old.events) + 1
                 /\ SubSeq(new.events, 1, Len(old.events)) = old.events
                 /\ new.events[Len(new.events)].id = id
                 /\ new.events[Len(new.events)].mitigated = FALSE
                 /\ new.events[Len(new.events)].mitigatedBy = 0
                 /\ new.balance = old.balance - event.cost
                 /\ new.controls = old.controls]_vars

\* an organisation holding a control for another asset, with a security area
\* of the event, has had the event applied unmitigated
OtherAssetControlDidNotMitigate ==
  /\ game.state = Simulating
  /\ orgs[1].controls # <<>>
  /\ orgs[1].events # <<>>
  /\ LET e == orgs[1].events[1]
         c == ControlCatalog[orgs[1].controls[1].id]
     IN /\ ~e.mitigated
        /\ c.asset # events[e.id].asset
        /\ c.securityAreas \cap Range(events[e.id].securityAreas) # {}

\* cost * (1 - effectiveness), effectiveness in hundredths
Residual(cost, effectiveness) == (cost * (100 - effectiveness)) \div 100

\* C12: simulateEvent on an event matched by an implemented control appends
\* it with mitigated = true and mitigatedCost = cost * (1 - effectiveness)
\* and lowers the balance by that mitigatedCost, whatever the effectiveness;
\* the balance is lowered by the full cost only for an unmatched event.
MatchedEventCostsResidual ==
  [][\A r \in Requests :
        (req[r].pc = "simulateEventSave" /\ req'[r] # req[r]) =>
           LET o == req[r].orgsL[req[r].oi]
               event == events[req[r].evs[req[r].ei]]
               old == orgs[o]
               new == orgs'[o]
               entry == new.events[Len(new.events)]
               matching == {i \in DOMAIN old.controls : Matches(old.controls[i].id, event)}
           IN IF matching = {}
              THEN new.balance = old.balance - event.cost
              ELSE \E i \in matching :
                     LET residual == Residual(event.cost,
                                       ControlCatalog[old.controls[i].id].effectiveness)
                     IN /\ entry.mitigated
                        /\ entry.mitigatedCost = residual
                        /\ new.balance = old.balance - residual]_vars

\* C13: when several implemented controls match an event, the first of them
\* in the controls list is the event's mitigatedBy, the residual cost comes
\* from that control's effectiveness, and only that control's mitigation
\* counter changes (by cost - mitigatedCost), also when a later matching
\* control is more effective.
FirstMatchingControlMitigates ==
  [][\A r \in Requests :
        (req[r].pc = "simulateEventSave" /\ req'[r] # req[r]) =>
           LET o == req[r].orgsL[req[r].oi]
               event == events[req[r].evs[req[r].ei]]
               old == orgs[o]
               new == orgs'[o]
               entry == new.events[Len(new.events)]
               matching == {i \in DOMAIN old.controls : Matches(old.controls[i].id, event)}
           IN matching # {} =>
                LET first == CHOOSE i \in matching : \A j \in matching : i <= j
                IN /\ entry.mitigatedBy = old.controls[first].id
                   /\ entry.mitigatedCost =
                        Residual(event.cost, ControlCatalog[old.controls[first].id].effectiveness)
                   /\ DOMAIN new.controls = DOMAIN old.controls
                   /\ \A i \in DOMAIN old.controls :
                        /\ new.controls[i].id = old.controls[i].id
                        /\ new.controls[i].mitigation =
                             old.controls[i].mitigation +
                               (IF i = first THEN event.cost - entry.mitigatedCost ELSE 0)]_vars

\* an event matched by two implemented controls, the later one the more
\* effective, has been applied and is mitigated by the earlier one
EarlierOfTwoMatchesMitigated ==
  /\ game.state = Simulating
  /\ Len(orgs[1].controls) = 2
  /\ \E k \in DOMAIN orgs[1].events :
        LET e == orgs[1].events[k]
            first == orgs[1].controls[1].id
            second == orgs[1].controls[2].id
        IN /\ Matches(first, events[e.id])
           /\ Matches(second, events[e.id])
           /\ ControlCatalog[second].effectiveness > ControlCatalog[first].effectiveness
           /\ e.mitigatedBy = first
           /\ orgs[1].controls[2].mitigation = 0

\* C14: the balance recorded for an organisation in the simulation of turn
\* t is one new entry of pastBalances, it sits at index t - 1 (position t
\* here) and it is the organisation's balance before the turn's events.
BalanceRecordedAtTurnIndex ==
  [][\A r \in Requests :
        (req[r].pc = "saveBalanceSave" /\ req'[r] # req[r]) =>
           LET o == req[r].orgsL[req[r].oi]
               t == req[r].cur
               old == orgs[o]
               new == orgs'[o]
           IN /\ Len(new.pastBalances) = Len(old.pastBalances) + 1
              /\ Len(new.pastBalances) >= t
              /\ new.pastBalances[t] = old.balance]_vars

\* C15: once the game's state is Ended a control purchase changes no
\* organisation's balance or controls.
EndedGameSellsNothing ==
  [][(game.state = Ended /\ buy' # buy) =>
        \A o \in DOMAIN orgs :
           /\ orgs'[o].balance = orgs[o].balance
           /\ orgs'[o].controls = orgs[o].controls]_vars

\* C16: a completed simulation of a turn below maxTurns stores currentTurn
\* raised by one and the state Purchasing; a completed simulation of turn
\* maxTurns stores the state Ended and leaves currentTurn at maxTurns.
TurnAdvancesBelowMaxTurns ==
  [][(game.state = Simulating /\ game'.state # Simulating) =>
        IF game.currentTurn < game.maxTurns
        THEN game'.currentTurn = game.currentTurn + 1 /\ game'.state = Purchasing
        ELSE game'.currentTurn = game.currentTurn /\ game'.state = Ended]_vars

\* a simulation has completed and the game is back in Purchasing at turn 2
SecondTurnOpened ==
  /\ game.currentTurn = 2
  /\ game.state = Purchasing
  /\ response = Ok
  /\ pendingSaves = {}

\* C16 as stated: every completed simulation stores currentTurn raised by
\* one, and the state Ended if the raised currentTurn >= maxTurns, otherwise
\* Purchasing.
TurnAlwaysAdvances ==
  [][(game.state = Simulating /\ game'.state # Simulating) =>
        /\ game'.currentTurn = game.currentTurn + 1
        /\ game'.state = IF game'.currentTurn >= game.maxTurns
                         THEN Ended ELSE Purchasing]_vars

RECURSIVE TurnDebits(_, _, _)
\* what the entries 1 .. n of an organisation's events history that belong
\* to turn t have taken from its balance
TurnDebits(history, n, t) ==
  IF n = 0 THEN 0
  ELSE TurnDebits(history, n - 1, t) +
       (IF history[n].turn = t
        THEN Debit(history[n].mitigatedCost, history[n].cost) ELSE 0)

\* the ids of the last n entries of an events history
LastApplied(history, n) ==
  [k \in 1 .. n |-> history[Len(history) - n + k].id]

\* C17: within a turn's simulation no organisation is credited moneyPerTurn
\* before every organisation of the game has its balance recorded and all
\* the turn's events applied: while the first pass runs, an organisation
\* whose balance is recorded has that balance less the turn's debits, and
\* during the second pass the first pass is complete for every organisation.
CreditsFollowAllDebits ==
  \A r \in Requests :
     /\ req[r].pc \in {"saveBalance", "saveBalanceSave", "simulateEvent", "simulateEventSave"} =>
          \A i \in DOMAIN req[r].orgsL :
             LET org == orgs[req[r].orgsL[i]]
             IN Len(org.pastBalances) >= req[r].cur =>
                  org.balance = org.pastBalances[Len(org.pastBalances)]
                                  - TurnDebits(org.events, Len(org.events), req[r].turn)
     /\ req[r].pc \in {"simulateNewTurn", "simulateNewTurnSave"} =>
          \A i \in DOMAIN req[r].orgsL :
             LET org == orgs[req[r].orgsL[i]]
             IN /\ Len(org.pastBalances) >= req[r].cur
                /\ Len(org.events) >= Len(req[r].evs)
                /\ LastApplied(org.events, Len(req[r].evs)) = req[r].evs

\* the first of two organisations is credited and the second is about to be
SecondCreditPending ==
  \E r \in Requests :
     /\ req[r].pc = "simulateNewTurn"
     /\ Len(req[r].orgsL) = 2
     /\ req[r].oi = 2
     /\ Len(req[r].evs) = 2

\* the organisation's history holds the events evs as its last entries, in
\* that order, and no other entry of turn t
AppliedOnceInOrder(history, evs, t) ==
  /\ Len(history) >= Len(evs)
  /\ LastApplied(history, Len(evs)) = evs
  /\ \A k \in 1 .. (Len(history) - Len(evs)) : history[k].turn # t

\* C18: in a turn's simulation an organisation's balance record and its
\* whole pass over the events come before the next organisation's: the
\* organisations before the current one have every generated event once, in
\* generation order, the ones after it have no event and no balance of the
\* turn; when the simulation has run through, every organisation has the
\* same events of the turn, once each and in generation order.
EventsAppliedOrganisationByOrganisation ==
  \A r \in Requests :
     /\ req[r].pc \in {"saveBalance", "saveBalanceSave", "simulateEvent", "simulateEventSave"} =>
          \A i \in DOMAIN req[r].orgsL :
             LET org == orgs[req[r].orgsL[i]]
             IN /\ i < req[r].oi =>
                     /\ AppliedOnceInOrder(org.events, req[r].evs, req[r].turn)
                     /\ Len(org.pastBalances) >= req[r].cur
                /\ i > req[r].oi =>
                     /\ \A k \in DOMAIN org.events : org.events[k].turn # req[r].turn
                     /\ Len(org.pastBalances) < req[r].cur
     /\ req[r].pc \in {"simulateNewTurn", "simulateNewTurnSave", "advance"} =>
          /\ \A k \in 1 .. (Len(req[r].evs) - 1) : req[r].evs[k] < req[r].evs[k + 1]
          /\ \A i \in DOMAIN req[r].orgsL :
                AppliedOnceInOrder(orgs[req[r].orgsL[i]].events, req[r].evs, req[r].turn)

\* a simulation of two events for two organisations has run through
TwoEventsForTwoOrganisations ==
  \E r \in Requests :
     /\ req[r].pc = "advance"
     /\ Len(req[r].orgsL) = 2
     /\ Len(req[r].evs) = 2
     /\ \A o \in 1 .. 2 : Len(orgs[o].events) = 2

RECURSIVE MitigatedSum(_, _, _)
\* the sum of cost - mitigatedCost over the entries 1 .. n of an events
\* history whose mitigatedBy is the control c
MitigatedSum(history, n, c) ==
  IF n = 0 THEN 0
  ELSE MitigatedSum(history, n - 1, c) +
       (IF history[n].mitigated /\ history[n].mitigatedBy = c
        THEN history[n].cost - history[n].mitigatedCost ELSE 0)

ReturnedTurnIsStored ==
  [][\A r \in Requests :
        (req[r].pc = "advance" /\ req'[r].pc = "idle") =>
           /\ game'.state \in {Purchasing, Ended}
           /\ game'.state = AdvancedGame(game).state
           /\ game'.currentTurn = AdvancedGame(game).currentTurn]_vars

\* request r is rejected at this step: event generation or saveBalance throws
Rejection(r) ==
  /\ req'[r] # req[r]
  /\ \/ req[r].pc = "generateEvent" /\ req'[r].evs = req[r].evs
     \/ req[r].pc = "saveBalance" /\ req'[r].pc # "saveBalanceSave"

\* C21: a simulation that fails after it has started ends there: the step
\* that rejects it changes neither the stored game (currentTurn and state
\* stay as they are) nor any organisation or event and issues no game save,
\* and every organisation the request had already processed still holds its
\* recorded balance of the turn and the entries of the request's events.
RejectedSimulationLeavesTurn ==
  [][\A r \in Requests : Rejection(r) =>
        /\ req'[r].pc = "idle"
        /\ game' = game /\ pendingSaves' = pendingSaves
        /\ events' = events /\ orgs' = orgs
        /\ req[r].pc = "saveBalance" =>
              \A i \in 1 .. (req[r].oi - 1) :
                 LET org == orgs'[req[r].orgsL[i]] IN
                   /\ Len(org.pastBalances) >= req[r].cur
                   /\ \A j \in DOMAIN req[r].evs :
                         \E k \in DOMAIN org.events :
                            org.events[k].id = req[r].evs[j]]_vars

\* the second of two racing simulations of turn 1 was rejected at the second
\* organisation, after it had recorded and debited the first
RejectedAtSecondOrganisation ==
  /\ response = AlreadySet
  /\ Len(orgs) = 2
  /\ game.currentTurn = 1 /\ game.state = Simulating
  /\ Len(orgs[1].pastBalances) = 2
  /\ Len(orgs[2].pastBalances) = 1
  /\ Len(orgs[1].events) >= 2

CostModifierOf(slug) ==
  threatActors[CHOOSE i \in DOMAIN threatActors : threatActors[i].slug = slug].costModifier

\* C23: every generated event's cost is b * costModifier of its threat
\* actor for a base cost b with minCostPerEvent <= b <= maxCostPerEvent.
EventCostWithinBounds ==
  \A e \in DOMAIN events :
     LET costModifier == CostModifierOf(events[e].threatActor) IN
       /\ Money(game.minCostPerEvent) * costModifier <= events[e].cost * 100
       /\ events[e].cost * 100 <= Money(game.maxCostPerEvent) * costModifier

\* C24: in a game with allowUnavoidableIncidents = false every generated
\* event targets an asset that has at least one control in the catalog of
\* the game's own source, whatever that source is.
AvoidableEventsHaveControlsInSource ==
  ~game.allowUnavoidableIncidents =>
     \A e \in DOMAIN events : HasControls(events[e].asset, game.source)

\* C25: whenever an event is about to be generated and the game's source
\* has at least one security area, every draw of the count and of the
\* indices yields between 1 and 3 security areas, pairwise distinct and each
\* an area of the source, and the generation does not fail.
SecurityAreasAlwaysSampled ==
  \A r \in Requests : (req[r].pc = "generateEvent" /\ securityAreas # <<>>) =>
     \A rand \in Rand, rIdx \in [1 .. 3 -> Rand] :
        LET areas == GenerateSecurityAreas(securityAreas, rand, rIdx) IN
          /\ areas # <<0>>
          /\ Len(areas) \in 1 .. 3
          /\ \A i, j \in DOMAIN areas : i # j => areas[i] # areas[j]
          /\ \A i \in DOMAIN areas : areas[i] \in DOMAIN securityAreas

\* threatActor.includeFrom of the actor an event is attributed to
IncludeFromOf(slug) ==
  threatActors[CHOOSE i \in DOMAIN threatActors : threatActors[i].slug = slug].includeFrom

\* C26: no event is attributed to a threat actor whose includeFrom is set
\* and greater than currentTurn / maxTurns of the turn the event was
\* generated on.
NeverAttributedBeforeIncludeFrom ==
  \A e \in DOMAIN events :
     LET includeFrom == IncludeFromOf(events[e].threatActor) IN
       includeFrom.k = "num" =>
          ~(events[e].turn * includeFrom.d < includeFrom.n * game.maxTurns)

\* an event of the first turn went to the actor without includeFrom while
\* the actor with includeFrom 3/4 was held back; that actor got an event of
\* a later turn
HeldBackThenAttributed ==
  /\ \E e \in DOMAIN events :
        /\ events[e].turn = 1
        /\ \E i \in DOMAIN threatActors :
              /\ threatActors[i].includeFrom.k = "num"
              /\ 1 * threatActors[i].includeFrom.d < threatActors[i].includeFrom.n * game.maxTurns
  /\ \E e \in DOMAIN events :
        /\ IncludeFromOf(events[e].threatActor).k = "num"
        /\ events[e].turn > 1

\* C27: the progress value passed to the threat-actor selection,
\* currentTurn / maxTurns, is greater than 0 and at most 1 on every
\* simulated turn, and it is exactly 1 on the last turn.
ProgressAboveZeroAtMostOne ==
  \A r \in Requests : req[r].pc = "generateEvent" =>
     LET gameProgress == GameProgress(req[r].turn, game.maxTurns) IN
       /\ gameProgress.k = "num"
       /\ 0 < gameProgress.n /\ gameProgress.n <= gameProgress.d
       /\ req[r].turn = game.maxTurns => gameProgress = One

\* an event of the last turn of a game of several turns is about to be
\* generated
GeneratingOnLastTurn ==
  \E r \in Requests :
     /\ req[r].pc = "generateEvent"
     /\ game.maxTurns > 1 /\ req[r].turn = game.maxTurns

\* C27 as stated: the progress value is at least 0 and strictly below 1 on
\* every simulated turn, the last one included.
ProgressBelowOne ==
  \A r \in Requests : req[r].pc = "generateEvent" =>
     LET gameProgress == GameProgress(req[r].turn, game.maxTurns) IN
       /\ gameProgress.k = "num"
       /\ 0 <= gameProgress.n /\ gameProgress.n < gameProgress.d

\* no item at the positions idx has a probability
NoneSpecified(items, idx) ==
  \A j \in DOMAIN idx : items[idx[j]].probability.k = "undefined"

\* the item whose interval of width 1/n holds the draw rand / RandDen
UniformPick(idx, rand) == idx[((rand * Len(idx)) \div RandDen) + 1]

\* C28: whenever an event is about to be generated and no candidate threat
\* actor (no candidate asset) specifies a probability, the n candidates are
\* equally likely: for every draw the selection returns the candidate, in
\* catalog order, whose interval of width 1/n holds the draw.
UnspecifiedProbabilitiesAreUniform ==
  \A r \in Requests : req[r].pc = "generateEvent" =>
     LET actorIdx == ThreatActorCandidates(threatActors, req[r].turn, game.maxTurns)
         assetIdx == AssetCandidates(assets, game.allowUnavoidableIncidents)
     IN /\ (actorIdx # <<>> /\ NoneSpecified(threatActors, actorIdx)) =>
              \A rand \in Rand :
                 PickFrom(Normalise(threatActors, actorIdx), actorIdx, rand)
                    = UniformPick(actorIdx, rand)
        /\ (assetIdx # <<>> /\ NoneSpecified(assets, assetIdx)) =>
              \A rand \in Rand :
                 PickFrom(Normalise(assets, assetIdx), assetIdx, rand)
                    = UniformPick(assetIdx, rand)

\* C29: whenever an event is about to be generated and the candidate threat
\* actors (candidate assets) are not empty, the selection returns one of the
\* candidates for every draw, whatever probabilities are given or absent.
SelectionAlwaysReturnsCandidate ==
  \A r \in Requests : req[r].pc = "generateEvent" =>
     LET actorIdx == ThreatActorCandidates(threatActors, req[r].turn, game.maxTurns)
         assetIdx == AssetCandidates(assets, game.allowUnavoidableIncidents)
     IN \A rand \in Rand :
          /\ actorIdx # <<>> =>
               PickFrom(Normalise(threatActors, actorIdx), actorIdx, rand) \in Range(actorIdx)
          /\ assetIdx # <<>> =>
               PickFrom(Normalise(assets, assetIdx), assetIdx, rand) \in Range(assetIdx)

\* C30: no step changes the stored probability of a threat actor or of an
\* asset: the selection leaves both catalogs as they were.
SelectionLeavesCatalogs ==
  [][/\ \A i \in DOMAIN threatActors :
          threatActors'[i].probability = threatActors[i].probability
     /\ \A i \in DOMAIN assets :
          assets'[i].probability = assets[i].probability]_vars

PurchaseRecordsCurrentTurn ==
  [][(buy.pc = "save" /\ buy'.pc = "idle") =>
        LET new == orgs'[buy.org] IN
          new.controls[Len(new.controls)].turnImplemented = game.currentTurn]_vars

\* C33: when simulateEvent saves an event for an organisation that holds a
\* control without asset sharing a security area with the event, the event
\* is recorded as mitigated, whatever asset it is on.
AssetlessControlMitigatesAnyAsset ==
  [][\A r \in Requests :
        (req[r].pc = "simulateEventSave" /\ req'[r] # req[r]) =>
           LET o == req[r].orgsL[req[r].oi]
               event == events[req[r].evs[req[r].ei]]
               new == orgs'[o]
           IN (\E i \in DOMAIN orgs[o].controls :
                  LET control == ControlCatalog[orgs[o].controls[i].id] IN
                    /\ control.asset = NoAsset
                    /\ control.securityAreas \cap Range(event.securityAreas) # {})
              => new.events[Len(new.events)].mitigated]_vars

\* C34: a successful refresh returns a new refresh token that differs from
\* the presented one and is stored for the same kind, while the presented
\* token is no longer stored for that kind; a refresh is accepted only for
\* a token stored for the kind of the route it is presented to, and a
\* refused refresh ('Invalid token') presented a token not stored for that
\* kind.
RefreshRotatesToken ==
  /\ [](refreshResponse.status = Created =>
          /\ refreshResponse.refreshToken # refreshResponse.token
          /\ \E d \in refreshTokens :
                /\ d.token = refreshResponse.refreshToken
                /\ d.isAdmin = refreshResponse.isAdmin
          /\ \A d \in refreshTokens :
                ~(d.token = refreshResponse.token /\ d.isAdmin = refreshResponse.isAdmin))
  /\ [][/\ \A q \in RefreshRequests :
             (refresh[q].pc = "idle" /\ refresh'[q].pc = "save") =>
                \E d \in refreshTokens :
                   d.token = refresh'[q].token /\ d.isAdmin = refresh'[q].isAdmin
        /\ (refreshResponse'.status = InvalidToken /\ refreshResponse' # refreshResponse) =>
              /\ \A d \in refreshTokens :
                    ~(d.token = refreshResponse'.token /\ d.isAdmin = refreshResponse'.isAdmin)
              /\ refreshTokens' = refreshTokens]_vars

\* the user's first token was refreshed, the token returned was refreshed in
\* turn, and the first token, presented again, was refused
RevokedTokenRefused ==
  /\ refreshResponse.status = InvalidToken
  /\ refreshResponse.token = 1 /\ ~refreshResponse.isAdmin
  /\ \A d \in refreshTokens : d.token # 1
  /\ \E d \in refreshTokens : d.token > 3 /\ ~d.isAdmin

\* C35: in a Competitive game, once every organisation has submitted its
\* request for the turn the simulation fires without a further request: when
\* nothing is in flight any more, the game is not left waiting in Purchasing
\* with every organisation entered in readyOrganisations.
AllReadyIsSimulated ==
  (game.gameType = Competitive /\ Quiescent /\ game.state = Purchasing) =>
     ~(\A o \in Range(game.organisations) : o \in Range(game.readyOrganisations))

\* C36: a game that is not Ended can always complete its turn by further
\* simulate-turn requests: when nothing is in flight no organisation of the
\* game has the pastBalances slot of the current turn already set, which
\* would make saveBalance reject every further simulation of the turn.
TurnCanStillBeSimulated ==
  (Quiescent /\ game.state # Ended) =>
     \A o \in Range(game.organisations) : ~PastBalanceSet(orgs[o], game.currentTurn)

\* C37: whenever an event is about to be generated, every security area of
\* the game's source is among the event's security areas for some draws of
\* the count and of the indices.
EverySecurityAreaCanBeDrawn ==
  \A r \in Requests : req[r].pc = "generateEvent" =>
     \A a \in DOMAIN securityAreas :
        \E rand \in Rand, rIdx \in [1 .. 3 -> Rand] :
           a \in Range(GenerateSecurityAreas(securityAreas, rand, rIdx))

\* C38: a purchase and a turn simulation of the same organisation never
\* lose or overwrite each other's writes: the save of a purchase lowers the
\* stored balance by the control's cost and keeps the stored events, the
\* save of an event lowers the stored balance by the event's debit and keeps
\* every stored control, and the save of the turn income raises the stored
\* balance by moneyPerTurn and keeps every stored control.
PurchaseAndSimulationKeepWrites ==
  [][/\ (buy.pc = "save" /\ buy'.pc = "idle") =>
          /\ orgs'[buy.org].balance =
                orgs[buy.org].balance - ControlCatalog[buy.control].cost
          /\ orgs'[buy.org].events = orgs[buy.org].events
     /\ \A r \in Requests :
          (req[r].pc = "simulateEventSave" /\ req'[r] # req[r]) =>
             LET old == orgs[req[r].orgsL[req[r].oi]]
                 new == orgs'[req[r].orgsL[req[r].oi]]
                 entry == new.events[Len(new.events)]
             IN /\ new.balance = old.balance - Debit(entry.mitigatedCost, entry.cost)
                /\ [i \in DOMAIN new.controls |-> new.controls[i].id]
                      = [i \in DOMAIN old.controls |-> old.controls[i].id]
     /\ \A r \in Requests :
          (req[r].pc = "simulateNewTurnSave" /\ req'[r] # req[r]) =>
             LET old == orgs[req[r].orgsL[req[r].oi]]
                 new == orgs'[req[r].orgsL[req[r].oi]]
             IN /\ new.balance = old.balance + game.moneyPerTurn
                /\ new.controls = old.controls]_vars

\* C39: the stored readyOrganisations of a Competitive game has no
\* duplicates, holds only organisations of the game and is strictly shorter
\* than the game's organisations; in a SinglePlayer or Cooperative game it
\* is empty.
ReadyOrganisationsWithinGame ==
  IF game.gameType = Competitive
    THEN /\ \A i, j \in DOMAIN game.readyOrganisations :
               game.readyOrganisations[i] = game.readyOrganisations[j] => i = j
         /\ Range(game.readyOrganisations) \subseteq Range(game.organisations)
         /\ Len(game.readyOrganisations) < Len(game.organisations)
    ELSE game.readyOrganisations = <<>>
====
